---- MODULE Spec2Model ----
(***************************************************************************)
(* A model of hub_float (src/src/hub_float.hpp, src/src/hub_float.cpp):    *)
(* a value type wrapping one IEEE-754 double that is kept on the "hub"     *)
(* grid of a compact 1+EXP_BITS+MANT_BITS bit format.                      *)
(*                                                                         *)
(* A 64-bit double is modelled by its bit pattern, split into four fields  *)
(* so that every field fits a machine integer of the model checker:       *)
(*     s  = bit 63            (sign)                                       *)
(*     e  = bits 62..52       (biased exponent, 0..2047)                   *)
(*     hi = bits 51..SHIFT    (the upper MANT_BITS fraction bits)          *)
(*     lo = bits SHIFT-1..0   (the low SHIFT fraction bits)                *)
(* memcpy between double and uint64_t is therefore the identity on these   *)
(* records; the numeric meaning lives in the comparison and arithmetic     *)
(* operators below, which follow IEEE-754 binary64 (round to nearest,      *)
(* ties to even).                                                          *)
(***************************************************************************)
EXTENDS Integers, Sequences, FiniteSets, TLC

VARIABLES a, b, c, r, nat, op, din, uin, iin, fin, lin, hex, bin, steps

vars == <<a, b, c, r, nat, op, din, uin, iin, fin, lin, hex, bin, steps>>

(***************************************************************************)
(* Bounds of the model.                                                    *)
(***************************************************************************)
\* number of operations performed on the objects a, b, c in one run
MaxSteps == 2
\* width of the neighbourhoods taken around each boundary bit pattern
EdgeWidth == 1

(***************************************************************************)
(* Build-time parameters and derived constants (hub_float.hpp).            *)
(***************************************************************************)
EXP_BITS == 8
MANT_BITS == 23

Pow2(n) == 2^n

SHIFT == 52 - MANT_BITS
HUB_BIT == Pow2(SHIFT - 1)
CUSTOM_BIAS == Pow2(EXP_BITS - 1)
BIAS_DIFF == 1023 - CUSTOM_BIAS
CUSTOM_MAX_EXP == Pow2(EXP_BITS) - 1
doubleExp == CUSTOM_MAX_EXP + BIAS_DIFF

\* ((1ULL << (MANT_BITS + 1)) - 1) & ~(1ULL << 1): all ones with bit 1 cleared
\* customFrac as it would be without clearing bit 1
customFrac_all_ones == Pow2(MANT_BITS + 1) - 1

customFrac == (Pow2(MANT_BITS + 1) - 1) - 2
customMinFrac == 1

\* Largest values of the two fraction fields.
HiMax == Pow2(MANT_BITS) - 1
LoMax == Pow2(SHIFT) - 1

\* A 64-bit pattern from its fields.
Bits(s, e, hi, lo) == [s |-> s, e |-> e, hi |-> hi, lo |-> lo]

\* v << (SHIFT - 1) as a 52-bit fraction field, for v < 2^(MANT_BITS+1):
\* bits 51..SHIFT receive v >> 1, bit SHIFT-1 receives the low bit of v.
ShiftedFracHi(v) == v \div 2
ShiftedFracLo(v) == (v % 2) * Pow2(SHIFT - 1)

doubleFrac == [hi |-> ShiftedFracHi(customFrac), lo |-> ShiftedFracLo(customFrac)]
doubleMinFrac == [hi |-> ShiftedFracHi(customMinFrac), lo |-> ShiftedFracLo(customMinFrac)]

maxBits == Bits(0, doubleExp, doubleFrac.hi, doubleFrac.lo)
minBits == Bits(1, doubleExp, doubleFrac.hi, doubleFrac.lo)
minPosBits == Bits(0, BIAS_DIFF, doubleMinFrac.hi, doubleMinFrac.lo)

maxVal == maxBits
minVal == minBits
lowestVal == minPosBits

(***************************************************************************)
(* IEEE-754 binary64: classification, sign, comparison.                    *)
(***************************************************************************)
PosZero == Bits(0, 0, 0, 0)
NegZero == Bits(1, 0, 0, 0)
PosInf == Bits(0, 2047, 0, 0)
NegInf == Bits(1, 2047, 0, 0)
PosOne == Bits(0, 1023, 0, 0)
NegOne == Bits(1, 1023, 0, 0)

\* std::numeric_limits<double>::infinity() with the given sign
Infinity(s) == Bits(s, 2047, 0, 0)
Zero(s) == Bits(s, 0, 0, 0)
\* the quiet NaN an invalid operation produces; its sign is the platform's
DefaultNaN(s) == Bits(s, 2047, Pow2(MANT_BITS - 1), 0)

fpclassify(d) ==
    IF d.e = 2047
    THEN (IF d.hi = 0 /\ d.lo = 0 THEN "FP_INFINITE" ELSE "FP_NAN")
    ELSE IF d.e = 0
         THEN (IF d.hi = 0 /\ d.lo = 0 THEN "FP_ZERO" ELSE "FP_SUBNORMAL")
         ELSE "FP_NORMAL"

IsNaN(d) == fpclassify(d) = "FP_NAN"
IsInf(d) == fpclassify(d) = "FP_INFINITE"
IsZero(d) == fpclassify(d) = "FP_ZERO"
IsFinite(d) == d.e # 2047

signbit(d) == d.s = 1

\* std::abs and unary minus act on the sign bit alone
Abs(d) == [d EXCEPT !.s = 0]
Neg(d) == [d EXCEPT !.s = 1 - d.s]

\* magnitude order of two non-NaN patterns: lexicographic on (e, hi, lo)
MagLess(x, y) ==
    \/ x.e < y.e
    \/ x.e = y.e /\ x.hi < y.hi
    \/ x.e = y.e /\ x.hi = y.hi /\ x.lo < y.lo

MagEq(x, y) == x.e = y.e /\ x.hi = y.hi /\ x.lo = y.lo

\* x == y on doubles: false with a NaN, +0 == -0
DEq(x, y) ==
    /\ ~IsNaN(x) /\ ~IsNaN(y)
    /\ \/ IsZero(x) /\ IsZero(y)
       \/ x = y

\* x < y on doubles: false with a NaN, +0 and -0 compare equal
DLess(x, y) ==
    /\ ~IsNaN(x) /\ ~IsNaN(y)
    /\ ~(IsZero(x) /\ IsZero(y))
    /\ \/ x.s = 1 /\ y.s = 0
       \/ x.s = 0 /\ y.s = 0 /\ MagLess(x, y)
       \/ x.s = 1 /\ y.s = 1 /\ MagLess(y, x)

DGreater(x, y) == DLess(y, x)

(***************************************************************************)
(* quantize and its helpers (hub_float.cpp).                               *)
(***************************************************************************)
\* std::abs(d) < lowestVal && d != 0.0 && d != -0.0
BelowLowest(d) == DLess(Abs(d), lowestVal) /\ ~DEq(d, PosZero) /\ ~DEq(d, NegZero)

\* handle_specials as it would be if the sign of a NaN were ignored
handle_specials_unsigned(d) ==
    IF fpclassify(d) = "FP_NAN"
    THEN PosInf
    ELSE IF BelowLowest(d)
         THEN (IF signbit(d) THEN NegZero ELSE PosZero)
         ELSE d

handle_specials(d) ==
    IF fpclassify(d) = "FP_NAN"
    THEN (IF signbit(d) THEN NegInf ELSE PosInf)
    ELSE IF BelowLowest(d)
         THEN (IF signbit(d) THEN NegZero ELSE PosZero)
         ELSE d

\* The first branch of handle_special_cases and of hub_float(double):
\* the value passes through unchanged.
PassThrough(d) ==
    \/ fpclassify(d) = "FP_INFINITE"
    \/ fpclassify(d) = "FP_ZERO"
    \/ DEq(d, PosOne)
    \/ DEq(d, NegOne)

\* the second branch as it would be without the std::isnan test
Collapses_without_isnan(d) == BelowLowest(d)

\* The second branch: NaN, or a nonzero magnitude below lowestVal.
Collapses(d) == fpclassify(d) = "FP_NAN" \/ BelowLowest(d)

\* handle_special_cases(d, result): <<handled, result>>
handle_special_cases(d) ==
    IF PassThrough(d) THEN <<TRUE, d>>
    ELSE IF Collapses(d) THEN <<TRUE, handle_specials(d)>>
    ELSE <<FALSE, d>>

\* (bits & ((1ULL << SHIFT) - 1)) == HUB_BIT
is_on_grid(d) == d.lo = HUB_BIT

\* the snap as it would be without | HUB_BIT
SnapBits_clear_only(d) ==
    [d EXCEPT !.lo = (d.lo \div Pow2(SHIFT - 1)) * Pow2(SHIFT - 1)]

\* the snap as it would be with + HUB_BIT in place of | HUB_BIT: a hub bit
\* that is already set carries into bit SHIFT
SnapBits_add(d) ==
    LET cleared == (d.lo \div Pow2(SHIFT - 1)) * Pow2(SHIFT - 1)
    IN  IF cleared < HUB_BIT THEN [d EXCEPT !.lo = cleared + HUB_BIT]
        ELSE IF d.hi < HiMax THEN [d EXCEPT !.hi = d.hi + 1, !.lo = cleared - HUB_BIT]
        ELSE [d EXCEPT !.e = d.e + 1, !.hi = 0, !.lo = cleared - HUB_BIT]

\* the snap as it would be without clearing the low SHIFT-1 bits
SnapBits_set_only(d) ==
    [d EXCEPT !.lo = IF (d.lo \div HUB_BIT) % 2 = 1 THEN d.lo ELSE d.lo + HUB_BIT]

\* bits = (bits & ~((1ULL << (SHIFT-1)) - 1)) | HUB_BIT: the low SHIFT-1 bits
\* are cleared and bit SHIFT-1 is set; bits SHIFT and above are kept.
SnapBits(d) ==
    LET cleared == (d.lo \div Pow2(SHIFT - 1)) * Pow2(SHIFT - 1)
    IN  [d EXCEPT !.lo = IF cleared >= HUB_BIT THEN cleared ELSE cleared + HUB_BIT]

\* the clamp as it would be without the comparison with minVal
ClampToRange_upper_only(d) == IF DGreater(d, maxVal) THEN PosInf ELSE d

\* the end of apply_hub_grid as it would be without the clamp
ClampToRange_without_clamp(d) == d

\* the clamp that ends apply_hub_grid
ClampToRange(d) ==
    IF DGreater(d, maxVal) THEN PosInf
    ELSE IF DLess(d, minVal) THEN NegInf
    ELSE d

\* apply_hub_grid as it would be without the snap
apply_hub_grid_without_snap(d) == ClampToRange(d)

apply_hub_grid(d) == ClampToRange(SnapBits(d))

\* quantize as it would be with the special cases only, without the grid
quantize_without_grid(d) == handle_special_cases(d)[2]

quantize(d) ==
    LET sp == handle_special_cases(d)
    IN  IF sp[1] THEN sp[2] ELSE apply_hub_grid(d)

(***************************************************************************)
(* Conversions between double, float and int (the casts the code uses).    *)
(***************************************************************************)
RECURSIVE Msb(_)
\* position of the highest set bit of n > 0
Msb(n) == IF n < 2 THEN 0 ELSE 1 + Msb(n \div 2)

\* An IEEE-754 binary32 pattern: sign, 8-bit exponent, 23-bit fraction.
FBits(s, e, m) == [s |-> s, e |-> e, m |-> m]

\* the float whose 31 low bits (exponent and fraction) are n
FloatOfMag(s, n) ==
    IF n >= 255 * Pow2(23) THEN FBits(s, 255, 0)
    ELSE FBits(s, n \div Pow2(23), n % Pow2(23))

\* static_cast<float>(d): round to nearest, ties to even; overflow gives
\* infinity, results below 2^-126 are float subnormals.
DoubleToFloat(d) ==
    IF d.e = 2047
    THEN (IF d.hi = 0 /\ d.lo = 0 THEN FBits(d.s, 255, 0)
          ELSE FBits(d.s, 255, IF d.hi >= Pow2(22) THEN d.hi ELSE d.hi + Pow2(22)))
    ELSE IF d.e = 0 THEN FBits(d.s, 0, 0)
    ELSE LET x == d.e - 1023 IN
         IF x > 127 THEN FBits(d.s, 255, 0)
         ELSE IF x >= -126
         THEN LET up == d.lo > Pow2(28) \/ (d.lo = Pow2(28) /\ d.hi % 2 = 1)
              IN  FloatOfMag(d.s, (x + 127) * Pow2(23) + d.hi + (IF up THEN 1 ELSE 0))
         ELSE LET sh == (-126) - x IN
              IF sh > 24 THEN FBits(d.s, 0, 0)
              ELSE LET sig == Pow2(23) + d.hi
                       q == sig \div Pow2(sh)
                       rem == sig % Pow2(sh)
                       half == Pow2(sh - 1)
                       up == \/ rem > half
                             \/ rem = half /\ (d.lo > 0 \/ q % 2 = 1)
                   IN  FloatOfMag(d.s, q + (IF up THEN 1 ELSE 0))

\* std::fpclassify(f) == FP_NORMAL
FloatIsNormal(f) == f.e > 0 /\ f.e < 255

\* static_cast<double>(f): exact; a NaN keeps its sign and payload and
\* leaves the conversion quiet (top fraction bit set)
FloatToDouble(f) ==
    IF f.e = 255
    THEN (IF f.m = 0 THEN Infinity(f.s)
          ELSE Bits(f.s, 2047, (f.m % Pow2(MANT_BITS - 1)) + Pow2(MANT_BITS - 1), 0))
    ELSE IF f.e = 0
         THEN (IF f.m = 0 THEN Zero(f.s)
               ELSE LET k == Msb(f.m)
                    IN  Bits(f.s, (k - 149) + 1023, (f.m - Pow2(k)) * Pow2(23 - k), 0))
         ELSE Bits(f.s, (f.e - 127) + 1023, f.m, 0)

\* static_cast<double>(i) for a 32-bit int: exact
IntToDouble(i) ==
    IF i = 0 THEN PosZero
    ELSE LET s == IF i < 0 THEN 1 ELSE 0
             n == IF i < 0 THEN -i ELSE i
             k == Msb(n)
             rest == n - Pow2(k)
         IN  IF k <= 23
             THEN Bits(s, 1023 + k, rest * Pow2(23 - k), 0)
             ELSE Bits(s, 1023 + k, rest \div Pow2(k - 23),
                       (rest % Pow2(k - 23)) * Pow2(SHIFT - (k - 23)))

(***************************************************************************)
(* Constructors (hub_float.cpp).                                           *)
(***************************************************************************)
\* hub_float(): value(0.0)
hub_float_default == PosZero

\* The store made before the grid check of hub_float(double): it is not
\* followed by a return, so the grid check below always overwrites it.
SaturatedStore(d, before) ==
    IF DGreater(d, maxVal) THEN PosInf
    ELSE IF DLess(d, minVal) THEN NegInf
    ELSE before

\* the end of hub_float(double) as it would be without the grid check
GridStore_without_check(d, before) ==
    LET f == DoubleToFloat(d)
    IN  IF FloatIsNormal(f) THEN quantize(FloatToDouble(f))
        ELSE FloatToDouble(f)

\* The grid check and the float round trip that end hub_float(double); they
\* assign value on every path, whatever was stored before.
GridStore(d, before) ==
    IF d.lo = HUB_BIT
    THEN d
    ELSE LET f == DoubleToFloat(d)
         IN  IF FloatIsNormal(f) THEN quantize(FloatToDouble(f))
             ELSE FloatToDouble(f)

\* hub_float(double d): the value the new object holds
hub_float_double(d) ==
    IF PassThrough(d) THEN d
    ELSE IF Collapses(d) THEN handle_specials(d)
    ELSE GridStore(d, SaturatedStore(d, PosZero))

\* hub_float(float f) : hub_float(static_cast<double>(f))
hub_float_float(f) == hub_float_double(FloatToDouble(f))

\* hub_float(int i) : hub_float(static_cast<double>(i))
hub_float_int(i) == hub_float_double(IntToDouble(i))

\* A uint32_t as two 16-bit halves: the value is h * 2^16 + l.
U32(h, l) == [h |-> h, l |-> l]

\* (u >> n) for 16 <= n <= 31
Shr32(u, n) == u.h \div Pow2(n - 16)

\* u & ((1 << n) - 1) for 16 <= n <= 30
Low32(u, n) == (u.h % Pow2(n - 16)) * Pow2(16) + u.l

\* the three fields of a raw encoding
EncSign(u) == Shr32(u, EXP_BITS + MANT_BITS) % 2
EncExp(u) == Shr32(u, MANT_BITS) % Pow2(EXP_BITS)
\* the fraction field as it would be with a mask one bit short
EncFrac_short_mask(u) == Low32(u, MANT_BITS - 1)
EncFrac(u) == Low32(u, MANT_BITS)

\* the decoder as it would be without | HUB_BIT
hub_float_uint32_without_hub(u) ==
    LET sign == EncSign(u)
        custom_exp == EncExp(u)
        custom_frac == EncFrac(u)
    IN  IF custom_exp = 0 /\ custom_frac = 0 THEN Zero(sign)
        ELSE IF custom_exp = Pow2(EXP_BITS - 1) /\ custom_frac = 0
             THEN (IF sign = 1 THEN NegOne ELSE PosOne)
        ELSE IF custom_exp = Pow2(EXP_BITS) - 1 /\ custom_frac = Pow2(MANT_BITS) - 1
             THEN Infinity(sign)
        ELSE Bits(sign, custom_exp + BIAS_DIFF, custom_frac, 0)

\* the decoder as it would be without the reserved pattern of one
hub_float_uint32_without_one(u) ==
    LET sign == EncSign(u)
        custom_exp == EncExp(u)
        custom_frac == EncFrac(u)
    IN  IF custom_exp = 0 /\ custom_frac = 0 THEN Zero(sign)
        ELSE IF custom_exp = Pow2(EXP_BITS) - 1 /\ custom_frac = Pow2(MANT_BITS) - 1
             THEN Infinity(sign)
        ELSE Bits(sign, custom_exp + BIAS_DIFF, custom_frac, HUB_BIT)

\* hub_float(uint32_t binary_value)
hub_float_uint32(u) ==
    LET sign == EncSign(u)
        custom_exp == EncExp(u)
        custom_frac == EncFrac(u)
    IN  IF custom_exp = 0 /\ custom_frac = 0 THEN Zero(sign)
        ELSE IF custom_exp = Pow2(EXP_BITS - 1) /\ custom_frac = 0
             THEN (IF sign = 1 THEN NegOne ELSE PosOne)
        ELSE IF custom_exp = Pow2(EXP_BITS) - 1 /\ custom_frac = Pow2(MANT_BITS) - 1
             THEN Infinity(sign)
        ELSE Bits(sign, custom_exp + BIAS_DIFF, custom_frac, HUB_BIT)

(***************************************************************************)
(* Encoding and formatting (hub_float.cpp).                                *)
(***************************************************************************)
\* extractBitFields as it would be without the std::isinf branch
extractBitFields_without_isinf(v) ==
    IF DEq(v, PosZero) \/ DEq(v, NegZero)
    THEN [sign |-> v.s, custom_exp |-> 0, fraction_hi |-> v.hi, fraction_lo |-> v.lo,
          custom_frac |-> 0, custom_frac_with_hub |-> 0]
    ELSE IF DEq(v, PosOne) \/ DEq(v, NegOne)
    THEN [sign |-> v.s, custom_exp |-> Pow2(EXP_BITS - 1), fraction_hi |-> v.hi,
          fraction_lo |-> v.lo, custom_frac |-> 0, custom_frac_with_hub |-> 0]
    ELSE [sign |-> v.s, custom_exp |-> v.e - BIAS_DIFF, fraction_hi |-> v.hi,
          fraction_lo |-> v.lo, custom_frac |-> v.hi % Pow2(MANT_BITS),
          custom_frac_with_hub |-> v.hi * 2 + v.lo \div Pow2(SHIFT - 1)]

\* BitFields; fraction is kept as its two parts (hi above bit SHIFT, lo below)
extractBitFields(v) ==
    LET sign == v.s
        double_exp == v.e
    IN  IF DEq(v, PosZero) \/ DEq(v, NegZero)
        THEN [sign |-> sign, custom_exp |-> 0, fraction_hi |-> v.hi, fraction_lo |-> v.lo,
              custom_frac |-> 0, custom_frac_with_hub |-> 0]
        ELSE IF DEq(v, PosOne) \/ DEq(v, NegOne)
        THEN [sign |-> sign, custom_exp |-> Pow2(EXP_BITS - 1), fraction_hi |-> v.hi,
              fraction_lo |-> v.lo, custom_frac |-> 0, custom_frac_with_hub |-> 0]
        ELSE IF IsInf(v)
        THEN [sign |-> sign, custom_exp |-> Pow2(EXP_BITS) - 1, fraction_hi |-> v.hi,
              fraction_lo |-> v.lo, custom_frac |-> Pow2(MANT_BITS) - 1,
              custom_frac_with_hub |-> Pow2(MANT_BITS + 1) - 1]
        ELSE [sign |-> sign, custom_exp |-> double_exp - BIAS_DIFF, fraction_hi |-> v.hi,
              fraction_lo |-> v.lo,
              \* (fraction >> SHIFT) & ((1ULL << MANT_BITS) - 1)
              custom_frac |-> v.hi % Pow2(MANT_BITS),
              \* fraction >> (SHIFT - 1)
              custom_frac_with_hub |-> v.hi * 2 + v.lo \div Pow2(SHIFT - 1)]

\* The int expression ((sign & 1) << 31) | ((custom_exp & 255) << 23) of
\* toHexString, as two 16-bit halves of its 32-bit two's complement pattern.
PackedInt(fields) ==
    U32(((fields.sign % 2) * Pow2(EXP_BITS + MANT_BITS - 16))
          + ((fields.custom_exp % Pow2(EXP_BITS)) * Pow2(MANT_BITS - 16)),
        0)

\* packed: the int above converted to uint64_t (sign extended when bit 31 is
\* set) and or-ed with custom_frac & ((1 << MANT_BITS) - 1); four 16-bit
\* limbs, most significant first.
Packed(fields) ==
    LET pi == PackedInt(fields)
        ext == IF pi.h >= Pow2(15) THEN Pow2(16) - 1 ELSE 0
        frac == fields.custom_frac % Pow2(MANT_BITS)
    IN  <<ext, ext, pi.h + frac \div Pow2(16), frac % Pow2(16)>>

\* masked_packed as it would be without the mask
MaskedPacked_without_mask(fields) == Packed(fields)

\* masked_packed = packed & ((1ULL << total_bits) - 1), total_bits = 32
MaskedPacked(fields) ==
    LET p == Packed(fields) IN <<0, 0, p[3], p[4]>>

HexDigits == <<"0", "1", "2", "3", "4", "5", "6", "7",
               "8", "9", "A", "B", "C", "D", "E", "F">>

\* four uppercase hex digits of a 16-bit limb
Hex16(n) ==
    HexDigits[(n \div 4096) + 1] \o HexDigits[((n \div 256) % 16) + 1]
      \o HexDigits[((n \div 16) % 16) + 1] \o HexDigits[(n % 16) + 1]

\* std::hex << std::uppercase << std::setw(hex_digits) << std::setfill('0'):
\* at least (total_bits + 3) / 4 = 8 digits; more when the value needs them
HexOf(p) ==
    IF p[1] # 0 THEN Hex16(p[1]) \o Hex16(p[2]) \o Hex16(p[3]) \o Hex16(p[4])
    ELSE IF p[2] # 0 THEN Hex16(p[2]) \o Hex16(p[3]) \o Hex16(p[4])
    ELSE Hex16(p[3]) \o Hex16(p[4])

toHexString(v) == "0x" \o HexOf(MaskedPacked(extractBitFields(v)))

\* std::bitset<width>(n): the low width bits of n, most significant first
RECURSIVE BitString(_, _)
BitString(n, width) ==
    IF width = 0 THEN ""
    ELSE BitString(n \div 2, width - 1) \o (IF n % 2 = 1 THEN "1" ELSE "0")

\* toBinaryString(): S|EEEEEEEE|MMMMMMMMMMMMMMMMMMMMMMMM
toBinaryString(v) ==
    LET fields == extractBitFields(v)
    IN  (IF fields.sign = 1 THEN "1" ELSE "0") \o "|"
          \o BitString(fields.custom_exp, EXP_BITS) \o "|"
          \o BitString(fields.custom_frac_with_hub, MANT_BITS + 1)

(***************************************************************************)
(* Native double arithmetic (the +, -, *, / the operators apply to the     *)
(* stored doubles): IEEE-754 binary64, round to nearest, ties to even.     *)
(*                                                                         *)
(* A finite nonzero number is unpacked into sign s, exponent x and a       *)
(* 56-bit significand M = H * 2^28 + L with 2^55 <= M < 2^56: its value is *)
(* M * 2^(x - 55).  The top 53 bits are the double's significand; the low  *)
(* three are guard, round and sticky bits.                                 *)
(***************************************************************************)
Unp(s, x, H, L) == [s |-> s, x |-> x, H |-> H, L |-> L]

\* M >> sh, the bits shifted out or-ed into bit 0 (sticky)
ShiftRightJam(H, L, sh) ==
    IF sh = 0 THEN <<H, L>>
    ELSE IF sh < 28
    THEN LET nh == H \div Pow2(sh)
             nl == (H % Pow2(sh)) * Pow2(28 - sh) + L \div Pow2(sh)
             lost == (L % Pow2(sh)) # 0
         IN  <<nh, IF lost /\ nl % 2 = 0 THEN nl + 1 ELSE nl>>
    ELSE IF sh < 56
    THEN LET k == sh - 28
             nl == H \div Pow2(k)
             lost == (H % Pow2(k)) # 0 \/ L # 0
         IN  <<0, IF lost /\ nl % 2 = 0 THEN nl + 1 ELSE nl>>
    ELSE <<0, IF H # 0 \/ L # 0 THEN 1 ELSE 0>>

\* M << k for 0 <= k < 28, when the result stays below 2^56
ShiftLeft(H, L, k) ==
    <<H * Pow2(k) + L \div Pow2(28 - k), (L % Pow2(28 - k)) * Pow2(k)>>

\* shift a nonzero M < 2^56 left until bit 55 is set, lowering the exponent
Normalize(s, x, H, L) ==
    IF H = 0
    THEN LET k == 27 - Msb(L)
             m == ShiftLeft(L, 0, k)
         IN  Unp(s, x - 28 - k, m[1], m[2])
    ELSE LET k == 27 - Msb(H)
             m == ShiftLeft(H, L, k)
         IN  Unp(s, x - k, m[1], m[2])

\* a finite nonzero double, unpacked (subnormals are normalized)
Unpack(d) ==
    LET H0 == d.hi * 16 + d.lo \div Pow2(25)
        L0 == (d.lo % Pow2(25)) * 8
    IN  IF d.e = 0 THEN Normalize(d.s, -1022, H0, L0)
        ELSE Unp(d.s, d.e - 1023, Pow2(27) + H0, L0)

\* Round the 56-bit significand to 53 bits (nearest, ties to even) and pack;
\* top holds bits 52..25 of the result, bot bits 24..0.
RoundPack(u) ==
    LET sh == IF u.x < -1022 THEN (-1022) - u.x ELSE 0
        m == ShiftRightJam(u.H, u.L, sh)
        grs == m[2] % 8
        bot0 == m[2] \div 8
        inc == grs > 4 \/ (grs = 4 /\ bot0 % 2 = 1)
        bot1 == IF inc THEN bot0 + 1 ELSE bot0
        carry == bot1 \div Pow2(25)
        bot == bot1 % Pow2(25)
        top == m[1] + carry
    IN  IF sh > 0
        THEN \* subnormal, or rounded up to the smallest normal
             Bits(u.s, top \div Pow2(27), (top % Pow2(27)) \div 16,
                  (top % 16) * Pow2(25) + bot)
        ELSE LET x == IF top = Pow2(28) THEN u.x + 1 ELSE u.x
                 t == IF top = Pow2(28) THEN Pow2(27) ELSE top
             IN  IF x > 1023 THEN Infinity(u.s)
                 ELSE Bits(u.s, x + 1023, (t - Pow2(27)) \div 16,
                           (t % 16) * Pow2(25) + bot)

\* A long double of the build (x87 80-bit extended): sign, 15-bit biased
\* exponent e, and the 63 fraction bits below the explicit integer bit as
\* hi (the upper MANT_BITS), lo (the next SHIFT) and x (the lowest 11, which
\* a double has no room for).  The integer bit is 1 for 0 < e < 32767.
LongDouble(s, e, hi, lo, x) == [s |-> s, e |-> e, hi |-> hi, lo |-> lo, x |-> x]

\* static_cast<double>(d) on a long double: round to nearest, ties to even;
\* overflow gives infinity, x87 denormals are far below the smallest double
\* and give zero, a NaN keeps its sign and upper payload and is made quiet.
LongDoubleToDouble(l) ==
    IF l.e = 32767
    THEN (IF l.hi = 0 /\ l.lo = 0 /\ l.x = 0 THEN Infinity(l.s)
          ELSE Bits(l.s, 2047, (l.hi % Pow2(MANT_BITS - 1)) + Pow2(MANT_BITS - 1), l.lo))
    ELSE IF l.e = 0 THEN Zero(l.s)
    ELSE LET grs == l.x \div 256
             sticky == l.x % 256 # 0
         IN  RoundPack(Unp(l.s, l.e - 16383,
                           Pow2(27) + l.hi * 16 + l.lo \div Pow2(25),
                           (l.lo % Pow2(25)) * 8
                             + (IF sticky /\ grs % 2 = 0 THEN grs + 1 ELSE grs)))

\* operator"" _hb(long double d): hub_float(static_cast<double>(d))
hub_float_literal(l) == hub_float_double(LongDoubleToDouble(l))

\* |p| < |q| for unpacked numbers
UnpMagLess(p, q) ==
    \/ p.x < q.x
    \/ p.x = q.x /\ p.H < q.H
    \/ p.x = q.x /\ p.H = q.H /\ p.L < q.L

\* |p| + |q| with the sign of p, for |p| >= |q|
AddMags(p, q) ==
    LET m == ShiftRightJam(q.H, q.L, p.x - q.x)
        l0 == p.L + m[2]
        h0 == p.H + m[1] + l0 \div Pow2(28)
        l1 == l0 % Pow2(28)
    IN  IF h0 >= Pow2(28)
        THEN LET n == ShiftRightJam(h0, l1, 1) IN Unp(p.s, p.x + 1, n[1], n[2])
        ELSE Unp(p.s, p.x, h0, l1)

\* |p| - |q| with the sign of p, for |p| > |q|
SubMags(p, q) ==
    LET m == ShiftRightJam(q.H, q.L, p.x - q.x)
        borrow == IF p.L < m[2] THEN 1 ELSE 0
        l0 == p.L + borrow * Pow2(28) - m[2]
        h0 == p.H - m[1] - borrow
    IN  Normalize(p.s, p.x, h0, l0)

\* the quiet form of a NaN operand: the top fraction bit set, sign and
\* payload kept
QuietNaN(d) == [d EXCEPT !.hi = (d.hi % Pow2(MANT_BITS - 1)) + Pow2(MANT_BITS - 1)]

\* x + y on doubles; ns is the sign the platform gives the NaN of an
\* invalid operation (inf - inf).  A single NaN operand is returned quiet;
\* with two NaN operands the platform chooses.
NativeAdd(x, y, ns) ==
    IF IsNaN(x) /\ IsNaN(y) THEN DefaultNaN(ns)
    ELSE IF IsNaN(x) THEN QuietNaN(x)
    ELSE IF IsNaN(y) THEN QuietNaN(y)
    ELSE IF IsInf(x)
    THEN (IF IsInf(y) /\ x.s # y.s THEN DefaultNaN(ns) ELSE x)
    ELSE IF IsInf(y) THEN y
    ELSE IF IsZero(x)
    THEN (IF IsZero(y) THEN (IF x.s = y.s THEN x ELSE PosZero) ELSE y)
    ELSE IF IsZero(y) THEN x
    ELSE LET p == Unpack(x)
             q == Unpack(y)
         IN  IF x.s = y.s
             THEN RoundPack(IF UnpMagLess(p, q) THEN AddMags(q, p) ELSE AddMags(p, q))
             ELSE IF UnpMagLess(p, q) THEN RoundPack(SubMags(q, p))
             ELSE IF UnpMagLess(q, p) THEN RoundPack(SubMags(p, q))
             ELSE PosZero

\* x - y on doubles; a NaN operand keeps its sign
NativeSub(x, y, ns) ==
    IF IsNaN(y) THEN NativeAdd(x, y, ns) ELSE NativeAdd(x, Neg(y), ns)

\* The 25-bit significand of a stored value: 1, the MANT_BITS fraction bits
\* and the hub bit.  Every double a hub_float holds is normal with its low
\* SHIFT-1 bits zero, and * and / are only ever applied to such doubles.
Sig25(d) == Pow2(24) + d.hi * 2 + d.lo \div Pow2(28)

HasSig25(d) == d.e > 0 /\ d.e < 2047 /\ d.lo % Pow2(28) = 0

\* the exact product of two 25-bit significands, P = PH * 2^26 + PL
Product25(sx, sy) ==
    LET a1 == sx \div Pow2(13)
        a0 == sx % Pow2(13)
        b1 == sy \div Pow2(13)
        b0 == sy % Pow2(13)
        mid == a1 * b0 + a0 * b1
        low == a0 * b0 + (mid % Pow2(13)) * Pow2(13)
    IN  <<a1 * b1 + mid \div Pow2(13) + low \div Pow2(26), low % Pow2(26)>>

\* the exact product of two finite nonzero stored values, unpacked
MulUnp(x, y) ==
    LET P == Product25(Sig25(x), Sig25(y))
        s == (x.s + y.s) % 2
        xx == (x.e - 1023) + (y.e - 1023)
    IN  IF P[1] >= Pow2(23)
        THEN Unp(s, xx + 1, P[1] * 16 + P[2] \div Pow2(22), (P[2] % Pow2(22)) * 64)
        ELSE Unp(s, xx, P[1] * 32 + P[2] \div Pow2(21), (P[2] % Pow2(21)) * 128)

\* x * y on doubles holding stored values
NativeMul(x, y, ns) ==
    LET s == (x.s + y.s) % 2 IN
    IF IsNaN(x) \/ IsNaN(y) THEN DefaultNaN(ns)
    ELSE IF IsInf(x) \/ IsInf(y)
    THEN (IF IsZero(x) \/ IsZero(y) THEN DefaultNaN(ns) ELSE Infinity(s))
    ELSE IF IsZero(x) \/ IsZero(y) THEN Zero(s)
    ELSE CASE HasSig25(x) /\ HasSig25(y) -> RoundPack(MulUnp(x, y))

RECURSIVE DivBits(_, _, _)
\* n more quotient bits of rem / d (rem < d < 2^25): <<bits, remainder>>
DivBits(rem, d, n) ==
    IF n = 0 THEN <<0, rem>>
    ELSE LET k == IF n < 5 THEN n ELSE 5
             t == rem * Pow2(k)
             rest == DivBits(t % d, d, n - k)
         IN  <<(t \div d) * Pow2(n - k) + rest[1], rest[2]>>

\* the quotient of two finite nonzero stored values, unpacked, with the
\* remainder folded into the sticky bit
DivUnp(x, y) ==
    LET sx == Sig25(x)
        sy == Sig25(y)
        s == (x.s + y.s) % 2
        xx == (x.e - 1023) - (y.e - 1023)
        n0 == IF sx >= sy THEN sx ELSE 2 * sx
        hb == DivBits(n0 - sy, sy, 27)
        lb == DivBits(hb[2], sy, 28)
        L == IF lb[2] # 0 /\ lb[1] % 2 = 0 THEN lb[1] + 1 ELSE lb[1]
    IN  Unp(s, IF sx >= sy THEN xx ELSE xx - 1, Pow2(27) + hb[1], L)

\* x / y on doubles holding stored values
NativeDiv(x, y, ns) ==
    LET s == (x.s + y.s) % 2 IN
    IF IsNaN(x) \/ IsNaN(y) THEN DefaultNaN(ns)
    ELSE IF IsInf(x) THEN (IF IsInf(y) THEN DefaultNaN(ns) ELSE Infinity(s))
    ELSE IF IsInf(y) THEN Zero(s)
    ELSE IF IsZero(y) THEN (IF IsZero(x) THEN DefaultNaN(ns) ELSE Infinity(s))
    ELSE IF IsZero(x) THEN Zero(s)
    ELSE CASE HasSig25(x) /\ HasSig25(y) -> RoundPack(DivUnp(x, y))

RECURSIVE ISqrtRem(_, _, _, _)
\* digit-by-digit integer square root of X < 4^n: <<root, remainder>>
ISqrtRem(X, n, root, rem) ==
    IF n = 0 THEN <<root, rem>>
    ELSE LET rm == rem * 4 + ((X \div Pow2(2 * (n - 1))) % 4)
             trial == root * 4 + 1
         IN  IF rm >= trial THEN ISqrtRem(X, n - 1, root * 2 + 1, rm - trial)
             ELSE ISqrtRem(X, n - 1, root * 2, rm)

RECURSIVE SqrtBits(_, _, _, _, _)
\* n more root bits, the radicand's remaining digits being zero; root and
\* remainder are kept as two limbs of 28 bits: <<rootH, rootL, remH, remL>>
SqrtBits(rootH, rootL, remH, remL, n) ==
    IF n = 0 THEN <<rootH, rootL, remH, remL>>
    ELSE LET rmH == remH * 4 + remL \div Pow2(26)
             rmL == (remL % Pow2(26)) * 4
             tH == rootH * 4 + rootL \div Pow2(26)
             tL == (rootL % Pow2(26)) * 4 + 1
             r2H == rootH * 2 + rootL \div Pow2(27)
             r2L == (rootL % Pow2(27)) * 2
             ge == rmH > tH \/ (rmH = tH /\ rmL >= tL)
             borrow == IF rmL < tL THEN 1 ELSE 0
         IN  IF ge
             THEN SqrtBits(r2H, r2L + 1, rmH - tH - borrow,
                           rmL + borrow * Pow2(28) - tL, n - 1)
             ELSE SqrtBits(r2H, r2L, rmH, rmL, n - 1)

\* the square root of a positive finite stored value, unpacked: 56 root
\* bits, a nonzero remainder folded into the sticky bit
SqrtUnp(x) ==
    LET E == x.e - 1023
        X == IF E % 2 = 0 THEN Sig25(x) ELSE 2 * Sig25(x)
        first == ISqrtRem(X, 13, 0, 0)
        all == SqrtBits(0, first[1], 0, first[2], 43)
        L == IF (all[3] # 0 \/ all[4] # 0) /\ all[2] % 2 = 0 THEN all[2] + 1 ELSE all[2]
    IN  Unp(0, E \div 2, all[1], L)

\* std::sqrt(x) on a double holding a stored value
NativeSqrt(x, ns) ==
    IF IsNaN(x) THEN DefaultNaN(ns)
    ELSE IF IsZero(x) THEN x
    ELSE IF x.s = 1 THEN DefaultNaN(ns)
    ELSE IF IsInf(x) THEN x
    ELSE CASE HasSig25(x) -> RoundPack(SqrtUnp(x))

\* std::fma(x, y, z) on doubles holding stored values: the exact product
\* plus z, rounded once
NativeFma(x, y, z, ns) ==
    LET ps == (x.s + y.s) % 2 IN
    IF IsNaN(x) \/ IsNaN(y) \/ IsNaN(z) THEN DefaultNaN(ns)
    ELSE IF IsInf(x) \/ IsInf(y)
    THEN (IF IsZero(x) \/ IsZero(y) THEN DefaultNaN(ns)
          ELSE IF IsInf(z) /\ z.s # ps THEN DefaultNaN(ns)
          ELSE Infinity(ps))
    ELSE IF IsInf(z) THEN z
    ELSE IF IsZero(x) \/ IsZero(y)
    THEN (IF IsZero(z) THEN (IF z.s = ps THEN z ELSE PosZero) ELSE z)
    ELSE CASE HasSig25(x) /\ HasSig25(y) ->
         LET p == MulUnp(x, y) IN
         IF IsZero(z) THEN RoundPack(p)
         ELSE LET q == Unpack(z) IN
              IF p.s = q.s
              THEN RoundPack(IF UnpMagLess(p, q) THEN AddMags(q, p) ELSE AddMags(p, q))
              ELSE IF UnpMagLess(p, q) THEN RoundPack(SubMags(q, p))
              ELSE IF UnpMagLess(q, p) THEN RoundPack(SubMags(p, q))
              ELSE PosZero

(***************************************************************************)
(* Arithmetic on hub_float values (hub_float.cpp).  ns is the sign of the  *)
(* NaN an invalid native operation produces on the platform.               *)
(***************************************************************************)
operator_plus(x, y, ns) == quantize(NativeAdd(x, y, ns))
operator_minus(x, y, ns) == quantize(NativeSub(x, y, ns))
operator_times(x, y, ns) == quantize(NativeMul(x, y, ns))
operator_divide(x, y, ns) == quantize(NativeDiv(x, y, ns))

\* sqrt(const hub_float&)
hub_sqrt(x, ns) == quantize(NativeSqrt(x, ns))

\* (c_mantissa & ((1ULL << shift_amount) - 1)) != 0, or c_mantissa != 0 when
\* shift_amount exceeds 52
LostBitsNonzero(z, shift_amount) ==
    IF shift_amount > 52 THEN z.hi # 0 \/ z.lo # 0
    ELSE IF shift_amount <= SHIFT THEN (z.lo % Pow2(shift_amount)) # 0
    ELSE z.lo # 0 \/ (z.hi % Pow2(shift_amount - SHIFT)) # 0

\* needs_correction of fma: the fused result has no bit below the hub bit
\* and the exponents of c and of the separately rounded product differ
needs_correction(x, y, z, sumDouble, ns) ==
    /\ sumDouble.lo % Pow2(SHIFT - 1) = 0
    /\ LET intermediate_product == NativeMul(x, y, ns)
           temp_product == hub_float_double(intermediate_product)
           c_exp == extractBitFields(z).custom_exp
           p_exp == extractBitFields(temp_product).custom_exp
       IN  \/ c_exp > p_exp /\ (intermediate_product.lo \div Pow2(24)) % 2 = 1
           \/ c_exp < p_exp /\ LostBitsNonzero(z, p_exp - c_exp)

\* ulpBits = (expBits << 52) | (1ULL << 29)
ulp_val(sumDouble) == Bits(0, sumDouble.e, 1, 0)

\* the double fma hands to quantize
fma_sum(x, y, z, ns) ==
    LET sumDouble == NativeFma(x, y, z, ns)
    IN  IF needs_correction(x, y, z, sumDouble, ns)
        THEN NativeSub(sumDouble, ulp_val(sumDouble), ns)
        ELSE sumDouble

\* fma(const hub_float&, const hub_float&, const hub_float&)
fma(x, y, z, ns) == quantize(fma_sum(x, y, z, ns))

(***************************************************************************)
(* Inputs.                                                                 *)
(***************************************************************************)
\* the signs a platform may give the NaN of an invalid operation
NaNSigns == {0, 1}

\* k-neighbourhoods of the ends and the middle of a field of the given width
EdgeValues(width) ==
    (0..EdgeWidth) \cup ((Pow2(width) - 1 - EdgeWidth)..(Pow2(width) - 1))
      \cup {Pow2(width - 1)}

\* raw encodings from sign, exponent field and fraction field
Enc(s, e, f) == U32(s * Pow2(15) + e * Pow2(7) + f \div Pow2(16), f % Pow2(16))

\* exponent fields at the ends of the range and around the reserved one
EncExpEdges == {0, 1, Pow2(EXP_BITS - 1) - 1, Pow2(EXP_BITS - 1), Pow2(EXP_BITS - 1) + 1,
                Pow2(EXP_BITS) - 2, Pow2(EXP_BITS) - 1}

EncInputs == {Enc(s, e, f) : s \in {0, 1}, e \in EncExpEdges, f \in EdgeValues(MANT_BITS)}

\* double exponents: subnormal, smallest normal, around lowestVal, around the
\* smallest normal float, around one, around maxVal, largest, non-finite
DoubleExpEdges == {0, 1, BIAS_DIFF - 1, BIAS_DIFF, BIAS_DIFF + 1, BIAS_DIFF + 2, 1022, 1023,
                   doubleExp - 1, doubleExp, doubleExp + 1, 2046, 2047}

\* low SHIFT bits: zero, around the hub bit, all ones
LoEdges == (0..EdgeWidth) \cup ((HUB_BIT - EdgeWidth)..(HUB_BIT + EdgeWidth))
             \cup ((LoMax - EdgeWidth)..LoMax)

DoubleInputs ==
    {Bits(s, e, hi, lo) : s \in {0, 1}, e \in DoubleExpEdges,
                          hi \in EdgeValues(MANT_BITS), lo \in LoEdges}

IntInputs == {0, 1, -1, 2, -3, 255, Pow2(24) - 1, Pow2(24) + 1, -(Pow2(25) + 3),
              Pow2(30) + 1, -(Pow2(30) + Pow2(29) + 5)}

\* encodings the object a of a run is constructed from
SeedEncodings ==
    {Enc(0, 0, 0), Enc(0, 0, 1), Enc(0, Pow2(EXP_BITS - 1), 0),
     Enc(1, Pow2(EXP_BITS - 1) + 1, Pow2(MANT_BITS - 1)),
     Enc(0, Pow2(EXP_BITS) - 1, Pow2(MANT_BITS) - 2),
     Enc(1, Pow2(EXP_BITS) - 1, Pow2(MANT_BITS) - 1)}

\* encodings the object b of a run is constructed from
SeedEncodingsB ==
    {Enc(0, Pow2(EXP_BITS - 1), 0),
     Enc(1, Pow2(EXP_BITS - 1) + 1, Pow2(MANT_BITS - 1)),
     Enc(0, Pow2(EXP_BITS) - 1, Pow2(MANT_BITS) - 2),
     Enc(1, Pow2(EXP_BITS) - 1, Pow2(MANT_BITS) - 1)}

SeedEncodingsC == {Enc(0, Pow2(EXP_BITS) - 1, Pow2(MANT_BITS) - 1), Enc(1, 100, 5)}

\* doubles, ints given to the constructors during a run
RunDoubles == {Bits(1, 2047, 1, 1), Bits(0, BIAS_DIFF + 1, 0, 0),
               Bits(0, doubleExp + 1, 0, HUB_BIT)}
RunInts == {-3}

\* encodings given to the raw constructor during a run
RunEncodings == {Enc(0, 0, 1), Enc(1, Pow2(EXP_BITS) - 1, Pow2(MANT_BITS) - 1)}

NoInput == U32(0, 0)

\* floats at the ends of each class: zero, subnormal, normal, around one,
\* largest, infinite and NaN
FloatExpEdges == {0, 1, 126, 127, 128, 254, 255}
FloatInputs == {FBits(s, e, m) : s \in {0, 1}, e \in FloatExpEdges, m \in EdgeValues(MANT_BITS)}

\* long double exponents: denormal, below and at the smallest double, around
\* lowestVal, one, around maxVal, at and above the largest double, non-finite
LongDoubleExpEdges == {0, 16383 - 1075, 16383 - 1022, 16383 - 129, 16383 - 128, 16383,
                       16383 + 127, 16383 + 128, 16383 + 1023, 16383 + 1024, 32767}
\* the 11 bits a double drops: zero, below, at and above the half, all ones
ExtraEdges == {0, 1023, 1024, 1025, 2047}
LongDoubleInputs ==
    {LongDouble(s, e, hi, lo, x) : s \in {0, 1}, e \in LongDoubleExpEdges,
         hi \in EdgeValues(MANT_BITS), lo \in {0, HUB_BIT, LoMax}, x \in ExtraEdges}

\* the float and the literal a run constructs from: 2.49189384f and
\* 3.14159_hb (src/test/main.cpp)
RunFloats == {FBits(0, 128, 2063152)}
RunLiterals == {LongDouble(0, 16384, 4788175, 270239342, 541)}

NoFloat == FBits(0, 0, 0)
NoLiteral == LongDouble(0, 0, 0, 0, 0)

(***************************************************************************)
(* Spec: three hub_float objects a, b, c and the object r returned by the  *)
(* last value-returning call; every step is one call of the public         *)
(* interface.  nat is the double the call handed to quantize.              *)
(***************************************************************************)
Init ==
    /\ a \in {hub_float_uint32(u) : u \in SeedEncodings}
    /\ b \in {hub_float_uint32(u) : u \in SeedEncodingsB}
    /\ c \in {hub_float_uint32(u) : u \in SeedEncodingsC}
    /\ r = hub_float_default
    /\ nat = PosZero /\ op = "init" /\ din = PosZero /\ uin = NoInput /\ iin = 0
    /\ fin = NoFloat /\ lin = NoLiteral
    /\ hex = "" /\ bin = "" /\ steps = 0

Step == steps < MaxSteps /\ steps' = steps + 1

\* operator+ as it would be if written as *this += other; return *this
Add_in_place ==
    /\ Step
    /\ \E ns \in NaNSigns :
         /\ nat' = NativeAdd(a, b, ns)
         /\ r' = operator_plus(a, b, ns)
         /\ a' = operator_plus(a, b, ns)
    /\ op' = "add"
    /\ UNCHANGED <<b, c, din, uin, iin, hex, bin, fin, lin>>

\* r = a + b
Add ==
    /\ Step
    /\ \E ns \in NaNSigns :
         /\ nat' = NativeAdd(a, b, ns)
         /\ r' = operator_plus(a, b, ns)
    /\ op' = "add"
    /\ UNCHANGED <<a, b, c, din, uin, iin, hex, bin, fin, lin>>

\* r = a - b
Sub ==
    /\ Step
    /\ \E ns \in NaNSigns :
         /\ nat' = NativeSub(a, b, ns)
         /\ r' = operator_minus(a, b, ns)
    /\ op' = "sub"
    /\ UNCHANGED <<a, b, c, din, uin, iin, hex, bin, fin, lin>>

\* r = a * b
Mul ==
    /\ Step
    /\ \E ns \in NaNSigns :
         /\ nat' = NativeMul(a, b, ns)
         /\ r' = operator_times(a, b, ns)
    /\ op' = "mul"
    /\ UNCHANGED <<a, b, c, din, uin, iin, hex, bin, fin, lin>>

\* r = a / b
Div ==
    /\ Step
    /\ \E ns \in NaNSigns :
         /\ nat' = NativeDiv(a, b, ns)
         /\ r' = operator_divide(a, b, ns)
    /\ op' = "div"
    /\ UNCHANGED <<a, b, c, din, uin, iin, hex, bin, fin, lin>>

\* a += b:  *this = *this + other
AddAssign ==
    /\ Step
    /\ \E ns \in NaNSigns :
         /\ nat' = NativeAdd(a, b, ns)
         /\ a' = operator_plus(a, b, ns)
    /\ op' = "add_assign"
    /\ UNCHANGED <<b, c, r, din, uin, iin, hex, bin, fin, lin>>

\* a -= b
SubAssign ==
    /\ Step
    /\ \E ns \in NaNSigns :
         /\ nat' = NativeSub(a, b, ns)
         /\ a' = operator_minus(a, b, ns)
    /\ op' = "sub_assign"
    /\ UNCHANGED <<b, c, r, din, uin, iin, hex, bin, fin, lin>>

\* a *= b
MulAssign ==
    /\ Step
    /\ \E ns \in NaNSigns :
         /\ nat' = NativeMul(a, b, ns)
         /\ a' = operator_times(a, b, ns)
    /\ op' = "mul_assign"
    /\ UNCHANGED <<b, c, r, din, uin, iin, hex, bin, fin, lin>>

\* a /= b
DivAssign ==
    /\ Step
    /\ \E ns \in NaNSigns :
         /\ nat' = NativeDiv(a, b, ns)
         /\ a' = operator_divide(a, b, ns)
    /\ op' = "div_assign"
    /\ UNCHANGED <<b, c, r, din, uin, iin, hex, bin, fin, lin>>

\* a += a: other is the object itself
AddAssignSelf ==
    /\ Step
    /\ \E ns \in NaNSigns :
         /\ nat' = NativeAdd(a, a, ns)
         /\ a' = operator_plus(a, a, ns)
    /\ op' = "add_assign_self"
    /\ UNCHANGED <<b, c, r, din, uin, iin, hex, bin, fin, lin>>

\* a -= a: other is the object itself
SubAssignSelf ==
    /\ Step
    /\ \E ns \in NaNSigns :
         /\ nat' = NativeSub(a, a, ns)
         /\ a' = operator_minus(a, a, ns)
    /\ op' = "sub_assign_self"
    /\ UNCHANGED <<b, c, r, din, uin, iin, hex, bin, fin, lin>>

\* a *= a: other is the object itself
MulAssignSelf ==
    /\ Step
    /\ \E ns \in NaNSigns :
         /\ nat' = NativeMul(a, a, ns)
         /\ a' = operator_times(a, a, ns)
    /\ op' = "mul_assign_self"
    /\ UNCHANGED <<b, c, r, din, uin, iin, hex, bin, fin, lin>>

\* a /= a: other is the object itself
DivAssignSelf ==
    /\ Step
    /\ \E ns \in NaNSigns :
         /\ nat' = NativeDiv(a, a, ns)
         /\ a' = operator_divide(a, a, ns)
    /\ op' = "div_assign_self"
    /\ UNCHANGED <<b, c, r, din, uin, iin, hex, bin, fin, lin>>

\* r = sqrt(a)
Sqrt ==
    /\ Step
    /\ \E ns \in NaNSigns :
         /\ nat' = NativeSqrt(a, ns)
         /\ r' = hub_sqrt(a, ns)
    /\ op' = "sqrt"
    /\ UNCHANGED <<a, b, c, din, uin, iin, hex, bin, fin, lin>>

\* r = fma(a, b, c)
Fma ==
    /\ Step
    /\ \E ns \in NaNSigns :
         /\ nat' = fma_sum(a, b, c, ns)
         /\ r' = fma(a, b, c, ns)
    /\ op' = "fma"
    /\ UNCHANGED <<a, b, c, din, uin, iin, hex, bin, fin, lin>>

\* b = r, c = r: the result becomes an operand (copy assignment)
AssignB ==
    /\ Step
    /\ b' = r
    /\ op' = "assign_b"
    /\ UNCHANGED <<a, c, r, nat, din, uin, iin, hex, bin, fin, lin>>

AssignC ==
    /\ Step
    /\ c' = r
    /\ op' = "assign_c"
    /\ UNCHANGED <<a, b, r, nat, din, uin, iin, hex, bin, fin, lin>>

\* a = hub_float(d)
ConstructDouble ==
    /\ Step
    /\ \E d \in RunDoubles :
         /\ a' = hub_float_double(d)
         /\ din' = d
    /\ op' = "ctor_double"
    /\ UNCHANGED <<b, c, r, nat, uin, iin, hex, bin, fin, lin>>

\* a = hub_float(i)
ConstructInt ==
    /\ Step
    /\ \E i \in RunInts :
         /\ a' = hub_float_int(i)
         /\ iin' = i
    /\ op' = "ctor_int"
    /\ UNCHANGED <<b, c, r, nat, din, uin, hex, bin, fin, lin>>

\* a = hub_float(f) for a float f
ConstructFloat ==
    /\ Step
    /\ \E f \in RunFloats :
         /\ a' = hub_float_float(f)
         /\ fin' = f
    /\ op' = "ctor_float"
    /\ UNCHANGED <<b, c, r, nat, din, uin, iin, lin, hex, bin>>

\* a = l_hb for a literal l
ConstructLiteral ==
    /\ Step
    /\ \E l \in RunLiterals :
         /\ a' = hub_float_literal(l)
         /\ lin' = l
    /\ op' = "ctor_literal"
    /\ UNCHANGED <<b, c, r, nat, din, uin, iin, fin, hex, bin>>

\* a = hub_float(u)
ConstructRaw ==
    /\ Step
    /\ \E u \in RunEncodings :
         /\ a' = hub_float_uint32(u)
         /\ uin' = u
    /\ op' = "ctor_raw"
    /\ UNCHANGED <<b, c, r, nat, din, iin, hex, bin, fin, lin>>

\* hex = r.toHexString()
ToHexString ==
    /\ Step
    /\ hex' = toHexString(r)
    /\ op' = "hex"
    /\ UNCHANGED <<a, b, c, r, nat, din, uin, iin, bin, fin, lin>>

\* bin = r.toBinaryString()
ToBinaryString ==
    /\ Step
    /\ bin' = toBinaryString(r)
    /\ op' = "bin"
    /\ UNCHANGED <<a, b, c, r, nat, din, uin, iin, hex, fin, lin>>

Next ==
    \/ Add \/ Sub \/ Mul \/ Div
    \/ AddAssign \/ SubAssign \/ MulAssign \/ DivAssign
    \/ AddAssignSelf \/ SubAssignSelf \/ MulAssignSelf \/ DivAssignSelf
    \/ Sqrt \/ Fma
    \/ AssignB \/ AssignC
    \/ ConstructDouble \/ ConstructInt \/ ConstructRaw
    \/ ConstructFloat \/ ConstructLiteral
    \/ ToHexString \/ ToBinaryString

Spec == Init /\ [][Next]_vars

(***************************************************************************)
(* SpecFn: one call of a constructor or of quantize on an input drawn from *)
(* the input sets, followed by the calls that consume its result.          *)
(***************************************************************************)
InitFn ==
    /\ a = hub_float_default /\ b = hub_float_default /\ c = hub_float_default
    /\ r = hub_float_default
    /\ nat = PosZero /\ hex = "" /\ bin = "" /\ steps = 0
    /\ \/ /\ op = "input_double" /\ din \in DoubleInputs /\ uin = NoInput /\ iin = 0
          /\ fin = NoFloat /\ lin = NoLiteral
       \/ /\ op = "input_raw" /\ din = PosZero /\ uin \in EncInputs /\ iin = 0
          /\ fin = NoFloat /\ lin = NoLiteral
       \/ /\ op = "input_int" /\ din = PosZero /\ uin = NoInput /\ iin \in IntInputs
          /\ fin = NoFloat /\ lin = NoLiteral
       \/ /\ op = "input_float" /\ din = PosZero /\ uin = NoInput /\ iin = 0
          /\ fin \in FloatInputs /\ lin = NoLiteral
       \/ /\ op = "input_literal" /\ din = PosZero /\ uin = NoInput /\ iin = 0
          /\ fin = NoFloat /\ lin \in LongDoubleInputs

\* a = hub_float(din)
FnConstructDouble ==
    /\ op = "input_double"
    /\ a' = hub_float_double(din)
    /\ op' = "ctor_double"
    /\ UNCHANGED <<b, c, r, nat, din, uin, iin, hex, bin, steps, fin, lin>>

\* a = hub_float(uin)
FnConstructRaw ==
    /\ op = "input_raw"
    /\ a' = hub_float_uint32(uin)
    /\ op' = "ctor_raw"
    /\ UNCHANGED <<b, c, r, nat, din, uin, iin, hex, bin, steps, fin, lin>>

\* a = hub_float(iin)
FnConstructInt ==
    /\ op = "input_int"
    /\ a' = hub_float_int(iin)
    /\ op' = "ctor_int"
    /\ UNCHANGED <<b, c, r, nat, din, uin, iin, hex, bin, steps, fin, lin>>

\* a = hub_float(fin) for the float fin
FnConstructFloat ==
    /\ op = "input_float"
    /\ a' = hub_float_float(fin)
    /\ op' = "ctor_float"
    /\ UNCHANGED <<b, c, r, nat, din, uin, iin, fin, lin, hex, bin, steps>>

\* a = operator"" _hb(lin)
FnConstructLiteral ==
    /\ op = "input_literal"
    /\ a' = hub_float_literal(lin)
    /\ op' = "ctor_literal"
    /\ UNCHANGED <<b, c, r, nat, din, uin, iin, fin, lin, hex, bin, steps>>

\* r = quantize(din)
FnQuantize ==
    /\ op = "input_double"
    /\ r' = quantize(din)
    /\ op' = "quantize"
    /\ UNCHANGED <<a, b, c, nat, din, uin, iin, hex, bin, steps, fin, lin>>

\* r = quantize(r), nat keeps the first result
FnRequantize ==
    /\ op = "quantize"
    /\ nat' = r
    /\ r' = quantize(r)
    /\ op' = "requantize"
    /\ UNCHANGED <<a, b, c, din, uin, iin, hex, bin, steps, fin, lin>>

\* a = hub_float(static_cast<double>(a)): a second object constructed from
\* the double the first one holds; nat keeps that double
FnReconstruct ==
    /\ op \in {"ctor_double", "ctor_raw"}
    /\ hex = ""
    /\ nat' = a
    /\ a' = hub_float_double(a)
    /\ op' = IF op = "ctor_raw" THEN "reconstruct_raw" ELSE "reconstruct_double"
    /\ UNCHANGED <<b, c, r, din, uin, iin, hex, bin, steps, fin, lin>>

\* hex = a.toHexString() on the constructed object
FnToHexString ==
    /\ op \in {"ctor_double", "ctor_raw", "ctor_int", "ctor_float", "ctor_literal",
               "reconstruct_raw", "reconstruct_double"}
    /\ hex = ""
    /\ hex' = toHexString(a)
    /\ UNCHANGED <<a, b, c, r, nat, op, din, uin, iin, bin, steps, fin, lin>>

\* bin = a.toBinaryString() on the constructed object
FnToBinaryString ==
    /\ op \in {"ctor_double", "ctor_raw", "ctor_int", "ctor_float", "ctor_literal",
               "reconstruct_raw", "reconstruct_double"}
    /\ bin = ""
    /\ bin' = toBinaryString(a)
    /\ UNCHANGED <<a, b, c, r, nat, op, din, uin, iin, hex, steps, fin, lin>>

NextFn ==
    \/ FnConstructDouble \/ FnConstructRaw \/ FnConstructInt
    \/ FnConstructFloat \/ FnConstructLiteral
    \/ FnQuantize \/ FnRequantize
    \/ FnReconstruct
    \/ FnToHexString \/ FnToBinaryString

SpecFn == InitFn /\ [][NextFn]_vars

(***************************************************************************)
(* Properties.                                                             *)
(***************************************************************************)
One(s) == IF s = 1 THEN NegOne ELSE PosOne

\* +0, -0, +Infinity, -Infinity, +1.0, -1.0
IsSpecialValue(v) == IsZero(v) \/ IsInf(v) \/ v = PosOne \/ v = NegOne

\* finite normal, low SHIFT-1 bits zero, bit SHIFT-1 one
OnGridNormal(v) == fpclassify(v) = "FP_NORMAL" /\ v.lo = HUB_BIT

SatisfiesDataModel(v) == IsSpecialValue(v) \/ OnGridNormal(v)

\* nonzero finite magnitude below lowestVal
Underflows(d) == IsFinite(d) /\ ~IsZero(d) /\ MagLess(d, lowestVal)

BinaryOps == {"add", "sub", "mul", "div"}
CompoundOps == {"add_assign", "sub_assign", "mul_assign", "div_assign",
                "add_assign_self", "sub_assign_self", "mul_assign_self",
                "div_assign_self"}
ConstructorOps == {"ctor_double", "ctor_raw", "ctor_int", "ctor_float", "ctor_literal"}

\* C1: the result of a + b, a - b, a * b, a / b (r) and of the compound
\* forms (a) is a special value or a finite normal double on the hub grid,
\* at every step of a sequence of operations.
C1_ArithmeticClosure ==
    /\ op \in BinaryOps => SatisfiesDataModel(r)
    /\ op \in CompoundOps => SatisfiesDataModel(a)

\* two operations in a row on decoded operands (no double or int was
\* constructed), the second with a native result off the grid
C1_Witness ==
    /\ steps = 2 /\ op = "mul_assign"
    /\ din = PosZero /\ iin = 0 /\ uin = NoInput
    /\ fin = NoFloat /\ lin = NoLiteral
    /\ IsFinite(nat) /\ nat.lo # HUB_BIT
    /\ OnGridNormal(a)

\* C2: after hub_float(d), for a double d of any class, the stored value is
\* a special value or a finite normal double on the hub grid.
C2_ConstructedOnGrid ==
    op = "ctor_double" => SatisfiesDataModel(a)

\* C3: hub_float(d) holds +Infinity for every d > maxVal and -Infinity for
\* every d < minVal, on the grid or not.
C3_ConstructionSaturates ==
    op = "ctor_double" =>
        /\ DGreater(din, maxVal) => a = PosInf
        /\ DLess(din, minVal) => a = NegInf

\* C4: quantize(r) is the infinity with the sign of r for every finite r
\* whose magnitude exceeds maxVal.
C4_QuantizeOverflows ==
    op = "quantize" /\ IsFinite(din) /\ MagLess(maxVal, din) => r = Infinity(din.s)

\* C5: for a nonzero d with |d| < lowestVal, hub_float(d) and quantize(d)
\* are the zero with the sign of d, and no call stores or returns a nonzero
\* value of magnitude below lowestVal.
C5_UnderflowFlush ==
    /\ op = "ctor_double" /\ Underflows(din) => a = Zero(din.s)
    /\ op = "quantize" /\ Underflows(din) => r = Zero(din.s)
    /\ op \in ConstructorOps => ~Underflows(a)
    /\ op \in {"quantize", "requantize"} => ~Underflows(r)

\* C6: constructing from, or quantizing, a NaN gives the infinity with the
\* sign bit of the NaN, whatever its payload.
C6_NaNCollapse ==
    /\ op = "ctor_double" /\ IsNaN(din) => a = Infinity(din.s)
    /\ op = "quantize" /\ IsNaN(din) => r = Infinity(din.s)

\* a negative NaN with payload bits in both parts of the fraction, constructed
C6_Witness ==
    /\ op = "ctor_double" /\ IsNaN(din)
    /\ din.s = 1 /\ din.hi # 0 /\ din.lo # 0
    /\ a = NegInf

\* C7: after any sequence of constructions and operations no hub_float
\* object holds a NaN.
C7_NoLiveNaN ==
    ~IsNaN(a) /\ ~IsNaN(b) /\ ~IsNaN(c) /\ ~IsNaN(r)

\* the second call of a sequence was an invalid native operation
C7_Witness ==
    /\ steps = 2 /\ op \in BinaryOps \cup CompoundOps \cup {"sqrt", "fma"}
    /\ IsNaN(nat)

\* C8: decoding a raw encoding gives exactly the signed zero, one or
\* infinity on the three reserved patterns, and on no other pattern.
C8_ReservedDecoding ==
    op = "ctor_raw" =>
        LET s == EncSign(uin)
            e == EncExp(uin)
            f == EncFrac(uin)
        IN  /\ e = 0 /\ f = 0 => a = Zero(s)
            /\ e = Pow2(EXP_BITS - 1) /\ f = 0 => a = One(s)
            /\ e = Pow2(EXP_BITS) - 1 /\ f = Pow2(MANT_BITS) - 1 => a = Infinity(s)
            /\ IsSpecialValue(a) =>
                 \/ e = 0 /\ f = 0
                 \/ e = Pow2(EXP_BITS - 1) /\ f = 0
                 \/ e = Pow2(EXP_BITS) - 1 /\ f = Pow2(MANT_BITS) - 1

\* the reserved pattern of minus one, decoded
C8_Witness ==
    /\ op = "ctor_raw"
    /\ EncSign(uin) = 1 /\ EncExp(uin) = Pow2(EXP_BITS - 1) /\ EncFrac(uin) = 0
    /\ a = NegOne

\* C9: the integer hub_float(u).toHexString() packs and prints is u.
C9_EncodingRoundTrip ==
    op = "ctor_raw" /\ hex # "" =>
        /\ MaskedPacked(extractBitFields(a)) = <<0, 0, uin.h, uin.l>>
        /\ hex = "0x" \o Hex16(uin.h) \o Hex16(uin.l)

\* a negative, non-reserved encoding with the exponent field all ones,
\* decoded and printed
C9_Witness ==
    /\ op = "ctor_raw" /\ hex # ""
    /\ EncSign(uin) = 1 /\ EncExp(uin) = Pow2(EXP_BITS) - 1 /\ EncFrac(uin) = 1

\* C10: for a finite normal d with magnitude in [lowestVal, maxVal],
\* quantize(quantize(d)) is quantize(d) bit for bit.
C10_GridIdempotence ==
    op = "requantize" /\ fpclassify(din) = "FP_NORMAL"
      /\ ~MagLess(din, lowestVal) /\ ~MagLess(maxVal, din)
    => r = nat

\* an off-grid d in range, snapped by the first call, and quantized again
C10_Witness ==
    /\ op = "requantize" /\ fpclassify(din) = "FP_NORMAL"
    /\ ~MagLess(din, lowestVal) /\ ~MagLess(maxVal, din)
    /\ din.lo > HUB_BIT /\ nat # din /\ nat.lo = HUB_BIT

\* one of the three reserved patterns
IsReserved(u) ==
    \/ EncExp(u) = 0 /\ EncFrac(u) = 0
    \/ EncExp(u) = Pow2(EXP_BITS - 1) /\ EncFrac(u) = 0
    \/ EncExp(u) = Pow2(EXP_BITS) - 1 /\ EncFrac(u) = Pow2(MANT_BITS) - 1

\* C11: a non-reserved encoding with fields s, e, f decodes to the double
\* with sign s, exponent e + BIAS_DIFF, upper fraction bits f and low SHIFT
\* bits HUB_BIT, which is finite, normal and on the grid.
C11_GeneralDecoding ==
    op = "ctor_raw" /\ ~IsReserved(uin) =>
        /\ a.s = EncSign(uin)
        /\ a.e = EncExp(uin) + BIAS_DIFF
        /\ a.hi = EncFrac(uin)
        /\ a.lo = HUB_BIT
        /\ a.e >= 1 /\ a.e <= 2046
        /\ OnGridNormal(a)

\* a negative encoding with the exponent field all ones and the fraction
\* field one below the reserved infinity, decoded
C11_Witness ==
    /\ op = "ctor_raw" /\ ~IsReserved(uin)
    /\ EncSign(uin) = 1 /\ EncExp(uin) = Pow2(EXP_BITS) - 1
    /\ EncFrac(uin) = Pow2(MANT_BITS) - 2
    /\ a.e = 1150

\* positive, nonzero and smaller than y
PositiveBelow(x, y) == ~IsNaN(x) /\ ~IsZero(x) /\ x.s = 0 /\ DLess(x, y)

\* C12: encoding 0x00000001 decodes to lowestVal, and no constructed object
\* and no quantize result is positive, nonzero and smaller than
\* hub_float(0x00000001).
C12_SmallestPositive ==
    /\ op = "ctor_raw" /\ uin = U32(0, 1) => a = lowestVal
    /\ op \in ConstructorOps => ~PositiveBelow(a, hub_float_uint32(U32(0, 1)))
    /\ op \in {"quantize", "requantize"} => ~PositiveBelow(r, hub_float_uint32(U32(0, 1)))

\* the first branches of hub_float(double): zero, non-finite, or below lowestVal
IsSpecialCase(d) == IsZero(d) \/ ~IsFinite(d) \/ Underflows(d)

\* C13: an on-grid double that is no special case is stored unchanged; and
\* constructing from the double decoded from a non-reserved encoding u gives
\* the same double, which toHexString prints as u.
C13_OnGridStoredExactly ==
    /\ op = "ctor_double" /\ ~IsSpecialCase(din) /\ din.lo = HUB_BIT => a = din
    /\ op = "reconstruct_raw" /\ ~IsReserved(uin) =>
         /\ a = nat
         /\ hex # "" => hex = "0x" \o Hex16(uin.h) \o Hex16(uin.l)

\* 2.93873640254264289e-39, the double decoded from 0x00000001, constructed
\* again and printed
C13_Witness ==
    /\ op = "reconstruct_raw" /\ uin = U32(0, 1)
    /\ nat = Bits(0, BIAS_DIFF, 1, HUB_BIT)
    /\ a = nat /\ hex = "0x00000001"

\* d rounded to the nearest double with MANT_BITS fraction bits, ties to
\* even, with the hub bit then forced and the lower bits zero
RoundedThenHub(d) ==
    LET up == d.lo > HUB_BIT \/ (d.lo = HUB_BIT /\ d.hi % 2 = 1)
    IN  IF ~up THEN [d EXCEPT !.lo = HUB_BIT]
        ELSE IF d.hi < HiMax THEN [d EXCEPT !.hi = d.hi + 1, !.lo = HUB_BIT]
        ELSE [d EXCEPT !.e = d.e + 1, !.hi = 0, !.lo = HUB_BIT]

\* the same, replaced by the signed infinity when it exceeds maxVal
RoundedThenHubClamped(d) ==
    IF MagLess(maxVal, RoundedThenHub(d)) THEN Infinity(d.s) ELSE RoundedThenHub(d)

\* finite, in [lowestVal, maxVal] in magnitude, not +-1.0, not on the grid
OffGridInRange(d) ==
    /\ IsFinite(d) /\ ~MagLess(d, lowestVal) /\ ~MagLess(maxVal, d)
    /\ d # PosOne /\ d # NegOne
    /\ d.lo # HUB_BIT

\* C14: for an off-grid d in range, hub_float(d) holds d rounded to nearest
\* even at MANT_BITS fraction bits with the hub bit forced and the lower
\* bits zero, or the signed infinity if that exceeds maxVal.
C14_QuantizationPolicy ==
    op = "ctor_double" /\ OffGridInRange(din) => a = RoundedThenHubClamped(din)

\* C15: hub_float(1.0) + hub_float(1.0) is the value the encoding with
\* exponent field 2^(EXP_BITS-1)+1 and fraction field 0 decodes to,
\* 2*(1+2^-(MANT_BITS+1)), and it prints as that encoding, 0x40800000, not
\* as the reserved one.
C15_OnePlusOne ==
    LET two == Bits(0, 1024, 0, HUB_BIT)
    IN  /\ hub_float_double(PosOne) = PosOne
        /\ hub_float_uint32(Enc(0, Pow2(EXP_BITS - 1) + 1, 0)) = two
        /\ op = "add" /\ a = PosOne /\ b = PosOne => r = two
        /\ op = "hex" /\ r = two =>
             /\ hex = "0x40800000"
             /\ hex # toHexString(PosOne)

\* 1.0 + 1.0 computed, then printed
C15_Witness ==
    /\ op = "hex" /\ steps = 2
    /\ a = PosOne /\ b = PosOne /\ nat = Bits(0, 1024, 0, 0)
    /\ r = Bits(0, 1024, 0, HUB_BIT) /\ hex = "0x40800000"

\* C16: maxVal is the value decoded from sign 0, exponent field all ones,
\* fraction field all ones minus one; it is on the grid, minVal is -maxVal,
\* and no finite decoded value exceeds maxVal in magnitude.
C16_MaxVal ==
    /\ maxVal.lo = HUB_BIT /\ fpclassify(maxVal) = "FP_NORMAL"
    /\ minVal = [maxVal EXCEPT !.s = 1]
    /\ op = "ctor_raw" =>
         /\ uin = Enc(0, Pow2(EXP_BITS) - 1, Pow2(MANT_BITS) - 2) => a = maxVal
         /\ IsFinite(a) => ~MagLess(maxVal, a)

\* the largest encoding below the reserved infinity, decoded
C16_Witness ==
    /\ op = "ctor_raw"
    /\ uin = Enc(0, Pow2(EXP_BITS) - 1, Pow2(MANT_BITS) - 2)
    /\ a = Bits(0, 1150, Pow2(MANT_BITS) - 2, HUB_BIT)

\* the grid points next to an on-grid normal v, below and above in magnitude
GridDown(v) ==
    IF v.hi > 0 THEN [v EXCEPT !.hi = v.hi - 1]
    ELSE [v EXCEPT !.e = v.e - 1, !.hi = HiMax]
GridUp(v) ==
    IF v.hi < HiMax THEN [v EXCEPT !.hi = v.hi + 1]
    ELSE [v EXCEPT !.e = v.e + 1, !.hi = 0]

\* C17: when the correction of fma fires on a normal fused result with
\* exponent e, the double handed to quantize is the fused result minus
\* 2^(e-MANT_BITS), and fma(a,b,c) is within one grid step of
\* quantize(native fma(a,b,c)).
C17_FmaCorrectionIsOneUlp ==
    op = "fma" =>
        LET native == NativeFma(a, b, c, 0)
            q == quantize(native)
        IN  fpclassify(native) = "FP_NORMAL" /\ native.e > MANT_BITS /\ nat # native =>
              /\ nat = NativeSub(native, Bits(0, native.e - MANT_BITS, 0, 0), 0)
              /\ OnGridNormal(q) => r \in {q, GridDown(q), GridUp(q)}

\* C18: toHexString gives "0x" and exactly 8 uppercase hexadecimal digits
\* of the integer (sign << 31) | (custom_exp << 23) | custom_frac built from
\* the fields of extractBitFields, and that integer has no bit at or above
\* position 32.  The integer is kept as its part above bit 16 and its low
\* 16 bits.
C18_HexFormat ==
    op \in ConstructorOps /\ hex # "" =>
        LET f == extractBitFields(a)
            high == f.sign * Pow2(EXP_BITS + MANT_BITS - 16)
                      + f.custom_exp * Pow2(MANT_BITS - 16)
                      + f.custom_frac \div Pow2(16)
            low == f.custom_frac % Pow2(16)
        IN  /\ high < Pow2(16)
            /\ hex = "0x" \o Hex16(high) \o Hex16(low)

\* the results a call named by o may return on operands x, y, z
ResultsOf(o, x, y, z) ==
    CASE o = "add" -> {operator_plus(x, y, ns) : ns \in NaNSigns}
      [] o = "sub" -> {operator_minus(x, y, ns) : ns \in NaNSigns}
      [] o = "mul" -> {operator_times(x, y, ns) : ns \in NaNSigns}
      [] o = "div" -> {operator_divide(x, y, ns) : ns \in NaNSigns}
      [] o = "sqrt" -> {hub_sqrt(x, ns) : ns \in NaNSigns}
      [] o = "fma" -> {fma(x, y, z, ns) : ns \in NaNSigns}

\* C19: +, -, *, /, sqrt, fma, toBinaryString and toHexString leave their
\* operands as they were and return a function of the operands' values; a
\* compound assignment leaves in a the value of (a op b) computed from the
\* values before the call and leaves b as it was, also when b is a itself.
C19_ValueSemantics ==
    [][ /\ op' \in BinaryOps \cup {"sqrt", "fma"} =>
            /\ a' = a /\ b' = b /\ c' = c
            /\ r' \in ResultsOf(op', a, b, c)
        /\ op' = "hex" => a' = a /\ b' = b /\ c' = c /\ r' = r /\ hex' = toHexString(r)
        /\ op' = "bin" => a' = a /\ b' = b /\ c' = c /\ r' = r /\ bin' = toBinaryString(r)
        /\ op' = "add_assign" => a' \in ResultsOf("add", a, b, c) /\ b' = b /\ c' = c
        /\ op' = "sub_assign" => a' \in ResultsOf("sub", a, b, c) /\ b' = b /\ c' = c
        /\ op' = "mul_assign" => a' \in ResultsOf("mul", a, b, c) /\ b' = b /\ c' = c
        /\ op' = "div_assign" => a' \in ResultsOf("div", a, b, c) /\ b' = b /\ c' = c
        /\ op' = "add_assign_self" => a' \in ResultsOf("add", a, a, c) /\ b' = b /\ c' = c
        /\ op' = "sub_assign_self" => a' \in ResultsOf("sub", a, a, c) /\ b' = b /\ c' = c
        /\ op' = "mul_assign_self" => a' \in ResultsOf("mul", a, a, c) /\ b' = b /\ c' = c
        /\ op' = "div_assign_self" => a' \in ResultsOf("div", a, a, c) /\ b' = b /\ c' = c
      ]_vars

\* a /= a on the largest finite value, after an earlier call: a holds one
C19_Witness ==
    /\ steps = 2 /\ op = "div_assign_self"
    /\ nat = PosOne /\ a = PosOne
    /\ b = maxVal

\* C20: for a finite d with |d| >= lowestVal, d # +-1.0, whose snapped value
\* does not exceed maxVal in magnitude, quantize(d) keeps the sign bit, the
\* exponent and the upper MANT_BITS fraction bits of d, sets bit SHIFT-1 and
\* clears the bits below it.
C20_SnapIsTruncation ==
    op = "quantize" /\ IsFinite(din) /\ ~MagLess(din, lowestVal)
      /\ din # PosOne /\ din # NegOne
      /\ ~MagLess(maxVal, [din EXCEPT !.lo = HUB_BIT])
    => /\ r.s = din.s /\ r.e = din.e /\ r.hi = din.hi
       /\ r.lo = HUB_BIT

\* all fraction bits of d set: the snap does not carry
C20_Witness ==
    /\ op = "quantize" /\ din.s = 1 /\ din.e = 1022
    /\ din.hi = HiMax /\ din.lo = LoMax
    /\ r = Bits(1, 1022, HiMax, HUB_BIT)

\* the encoding with sign s whose exponent and fraction fields, read as one
\* integer, are n
EncOfMag(s, n) == U32(s * Pow2(15) + n \div Pow2(16), n % Pow2(16))

\* the values decoded from the encodings whose fields are within two steps
\* of the cell of d (895 <= d.e <= 1150), with the sign of d
RepresentableNear(d) ==
    LET n == (d.e - BIAS_DIFF) * Pow2(MANT_BITS) + d.hi
        lowN == IF n < 2 THEN 0 ELSE n - 2
        highN == IF n > Pow2(EXP_BITS + MANT_BITS - 1) - 3 + Pow2(EXP_BITS + MANT_BITS - 1)
                 THEN n ELSE n + 2
    IN  {hub_float_uint32(EncOfMag(d.s, m)) : m \in lowN..highN}

\* the magnitude of a finite v with base <= v.e <= base + 2, or of a zero,
\* in units of 2^(base - 1075): <<high part, low part>>, value
\* high * 2^SHIFT + low
ScaledMag(v, base) ==
    IF IsZero(v) THEN <<0, 0>>
    ELSE <<(Pow2(MANT_BITS) + v.hi) * Pow2(v.e - base), v.lo * Pow2(v.e - base)>>

\* |x - y| for two scaled magnitudes, with the low part in 0 .. 2^SHIFT - 1
AbsDiff(x, y) ==
    LET dl == x[2] - y[2]
        h == (x[1] - y[1]) + (dl \div Pow2(SHIFT))
        l == dl % Pow2(SHIFT)
    IN  IF h >= 0 THEN <<h, l>>
        ELSE IF l = 0 THEN <<-h, 0>>
        ELSE <<(-h) - 1, Pow2(SHIFT) - l>>

\* v is strictly closer to d than q is (v, q, d of one sign, exponents
\* within one of d's)
StrictlyCloser(v, q, d) ==
    LET base == d.e - 1
        dv == AbsDiff(ScaledMag(v, base), ScaledMag(d, base))
        dq == AbsDiff(ScaledMag(q, base), ScaledMag(d, base))
    IN  dv[1] < dq[1] \/ (dv[1] = dq[1] /\ dv[2] < dq[2])

\* lowestVal <= |d| <= maxVal for a finite d
InFormatRange(d) ==
    IsFinite(d) /\ ~IsZero(d) /\ ~MagLess(d, lowestVal) /\ ~MagLess(maxVal, d)

\* C21: for every finite d with lowestVal <= |d| <= maxVal, no value decoded
\* from an encoding is strictly closer to d than quantize(d).
C21_NearestRepresentable ==
    op = "quantize" /\ InFormatRange(din) =>
        \A v \in RepresentableNear(din) :
            IsFinite(v) => ~StrictlyCloser(v, r, din)
\* the hub bit the claim expects in the printed fraction of v
ExpectedHub(v) == IF IsZero(v) \/ v = PosOne \/ v = NegOne THEN 0 ELSE 1

\* the fields of v are in range, the printed fraction is the fraction field
\* followed by the hub bit, and the specials report their reserved patterns
FieldsConsistent(v) ==
    LET f == extractBitFields(v) IN
    /\ f.custom_exp \in 0..(Pow2(EXP_BITS) - 1)
    /\ f.custom_frac \in 0..(Pow2(MANT_BITS) - 1)
    /\ f.custom_frac_with_hub = 2 * f.custom_frac + ExpectedHub(v)
    /\ IsZero(v) => f.custom_exp = 0 /\ f.custom_frac = 0
    /\ v \in {PosOne, NegOne} => f.custom_exp = Pow2(EXP_BITS - 1) /\ f.custom_frac = 0
    /\ IsInf(v) => f.custom_exp = Pow2(EXP_BITS) - 1 /\ f.custom_frac = Pow2(MANT_BITS) - 1

\* C22: for every value obtained by decoding or by arithmetic (r, b and c
\* always; a while it holds a decoded value or a compound result),
\* extractBitFields gives an exponent field in 0 .. 2^EXP_BITS - 1, a fraction
\* field in 0 .. 2^MANT_BITS - 1 and a printed fraction equal to
\* (custom_frac << 1) | h, with h = 1 on the grid and for the infinities and
\* h = 0 for the zeros and +-1.0; the specials report their reserved patterns.
C22_BitFieldsConsistent ==
    /\ FieldsConsistent(r)
    /\ FieldsConsistent(b)
    /\ FieldsConsistent(c)
    /\ op \in CompoundOps \cup {"init", "ctor_raw"} => FieldsConsistent(a)

\* the binary string of an arithmetic result whose native value was off the
\* grid has been printed
C22_Witness ==
    /\ op = "bin" /\ bin # ""
    /\ OnGridNormal(r) /\ IsFinite(nat) /\ nat.lo # HUB_BIT
    /\ extractBitFields(r).custom_frac_with_hub % 2 = 1
\* E(v): the 32-bit integer v.toHexString() prints
PrintedEncoding(v) ==
    LET p == MaskedPacked(extractBitFields(v)) IN U32(p[3], p[4])

\* v is the value some encoding decodes to
Decodable(v) == hub_float_uint32(PrintedEncoding(v)) = v

\* C23: for decoded a and b and every op in {+, -, *, /}, decoding the
\* integer printed by (a op b).toHexString() gives a op b back.
C23_ValueRoundTrip ==
    op \in BinaryOps /\ Decodable(a) /\ Decodable(b) => Decodable(r)
\* +-0, +-Infinity, or finite with magnitude in [lowestVal, maxVal]
InRangeOrLimit(v) == IsZero(v) \/ IsInf(v) \/ InFormatRange(v)

\* C24: along every sequence of +, -, *, /, sqrt and fma that starts from
\* decoded values, every value held (r, b and c always; a while it holds a
\* decoded value or a compound result) is +-0, +-Infinity or finite with
\* magnitude in [lowestVal, maxVal].
C24_RangeInvariant ==
    /\ InRangeOrLimit(r)
    /\ InRangeOrLimit(b)
    /\ InRangeOrLimit(c)
    /\ op \in CompoundOps \cup {"init", "ctor_raw"} => InRangeOrLimit(a)

\* the second operation of a sequence on decoded values has a finite
\* native result above maxVal
C24_Witness ==
    /\ steps = 2 /\ op \in BinaryOps
    /\ din = PosZero /\ iin = 0 /\ fin = NoFloat /\ lin = NoLiteral
    /\ IsFinite(nat) /\ MagLess(maxVal, nat)
    /\ IsInf(r)
\* C25: when the native fused multiply-add of a, b, c is +Infinity,
\* -Infinity, +0 or -0, fma(a, b, c) returns that same value.
C25_FmaKeepsLimits ==
    op = "fma" =>
        \A ns \in NaNSigns :
            LET native == NativeFma(a, b, c, ns)
            IN  IsInf(native) \/ IsZero(native) => r = native
\* the exponent and fraction fields of an encoding read as one integer
MagField(u) == (u.h % Pow2(EXP_BITS + MANT_BITS - 16)) * Pow2(16) + u.l

\* the encoding after u among those with sign bit 0, when there is one
NextEncoding(u) ==
    IF MagField(u) < Pow2(EXP_BITS + MANT_BITS - 1) - 1 + Pow2(EXP_BITS + MANT_BITS - 1)
    THEN {EncOfMag(0, MagField(u) + 1)}
    ELSE {}

\* u with the sign bit set
WithSignBit(u) == U32(u.h + Pow2(EXP_BITS + MANT_BITS - 16), u.l)

\* C26: for encodings u1 < u2 with sign bit 0, hub_float(u1) is strictly
\* less than hub_float(u2), the reserved patterns included, and setting the
\* sign bit of an encoding negates the decoded value exactly.
C26_DecodingOrder ==
    op = "ctor_raw" /\ EncSign(uin) = 0 =>
        /\ \A u2 \in EncInputs \cup NextEncoding(uin) :
               EncSign(u2) = 0 /\ MagField(uin) < MagField(u2)
                   => DLess(a, hub_float_uint32(u2))
        /\ hub_float_uint32(WithSignBit(uin)) = Neg(a)

\* the last encoding before the reserved pattern of one has been decoded
C26_Witness ==
    /\ op = "ctor_raw" /\ EncSign(uin) = 0
    /\ EncExp(uin) = Pow2(EXP_BITS - 1) - 1 /\ EncFrac(uin) = Pow2(MANT_BITS) - 1
    /\ NextEncoding(uin) = {Enc(0, Pow2(EXP_BITS - 1), 0)}
    /\ DLess(a, PosOne)
\* x <= y on doubles
DLessEq(x, y) == DLess(x, y) \/ DEq(x, y)

\* C27: for non-NaN doubles d1 <= d2, quantize(d1) <= quantize(d2).
C27_QuantizeMonotone ==
    op = "quantize" /\ ~IsNaN(din) =>
        \A d2 \in DoubleInputs :
            ~IsNaN(d2) /\ DLessEq(din, d2) => DLessEq(r, quantize(d2))

\* the largest double below 1.0 has been quantized: the result is below the
\* pass-through point
C27_Witness ==
    /\ op = "quantize"
    /\ din = Bits(0, 1022, HiMax, LoMax)
    /\ DLess(r, PosOne) /\ DLess(r, quantize(PosOne))
\* C28: for every non-NaN d, quantize(-d) is the negation of quantize(d) and
\* hub_float(-d) holds the negation of what hub_float(d) holds: the same
\* magnitude bits and the opposite sign bit.
C28_SignSymmetry ==
    /\ op = "quantize" /\ ~IsNaN(din) => quantize(Neg(din)) = Neg(r)
    /\ op = "ctor_double" /\ ~IsNaN(din) => hub_float_double(Neg(din)) = Neg(a)

\* a finite double below minVal has been quantized to -Infinity
C28_Witness ==
    /\ op = "quantize"
    /\ IsFinite(din) /\ DLess(din, minVal)
    /\ r = NegInf /\ quantize(Neg(din)) = PosInf
\* C29: constructing a hub_float from the double held by hub_float(d) gives
\* an object that holds the same double, bit for bit.
C29_ConstructionIdempotent ==
    op = "reconstruct_double" => a = nat
====
